---------------------------- MODULE Spec2Model ----------------------------
(***************************************************************************)
(* Fragment codecs of eq_wld (src/parser/fragments): the five fragment     *)
(* kinds 0x09, 0x37, 0x2f, 0x18 and 0x16, their parse and serialize        *)
(* functions, and a caller that decodes the slots of a fragment directory  *)
(* and writes the decoded fragments back.                                  *)
(*                                                                         *)
(* A byte slice is a sequence of integers 0..255.  A parser returns nom's  *)
(* IResult: Ok((remaining, value)) or Err(Error(kind)).                    *)
(***************************************************************************)
EXTENDS Integers, Sequences, FiniteSets, TLC

VARIABLES directory, fragments, outputs, reparsed, names

vars == <<directory, fragments, outputs, reparsed, names>>

-----------------------------------------------------------------------------
(* Bounds of the model.                                                    *)

\* largest element count a generated 0x37 header or value declares
MaxCount == 2
\* most bytes that follow a complete record in a generated payload
MaxTail == 1
\* number of slots of the directory in DirSpec
DirLen == 2

-----------------------------------------------------------------------------
(* nom::IResult and the scalar parsers of nom::number::complete.           *)

\* nom::error::ErrorKind::Eof, the error of a complete parser that runs out
\* of input (the spec's InsufficientBytes)
Eof == "Eof"

Ok(remaining, value) == [ok |-> TRUE, remaining |-> remaining, value |-> value]

Err(kind) == [ok |-> FALSE, error |-> kind]

\* &input[n..]
Drop(input, n) == SubSeq(input, n + 1, Len(input))

\* &input[..n]
Take(input, n) == SubSeq(input, 1, n)

le_u16(input) ==
    IF Len(input) < 2 THEN Err(Eof)
    ELSE Ok(Drop(input, 2), input[1] + 256 * input[2])

\* a le_u32 that reads the bytes there are and takes the missing ones as 0
le_u32_zero_filled(input) ==
    IF Len(input) = 0 THEN Err(Eof)
    ELSE LET b == Take(input \o <<0, 0, 0>>, 4) IN
         Ok(Drop(input, IF Len(input) < 4 THEN Len(input) ELSE 4),
            [lo |-> b[1] + 256 * b[2], hi |-> b[3] + 256 * b[4]])

\* a u32 is held as its two 16-bit halves, its value being lo + 65536 * hi:
\* the values from 2^31 on are beyond the integers of the model checker
le_u32(input) ==
    IF Len(input) < 4 THEN Err(Eof)
    ELSE Ok(Drop(input, 4),
            [lo |-> input[1] + 256 * input[2], hi |-> input[3] + 256 * input[4]])

le_i16(input) ==
    LET r == le_u16(input) IN
    IF ~r.ok THEN r
    ELSE Ok(r.remaining, IF r.value >= 32768 THEN r.value - 65536 ELSE r.value)

\* two's complement: the top byte counts from -128 to 127
le_i32(input) ==
    IF Len(input) < 4 THEN Err(Eof)
    ELSE Ok(Drop(input, 4),
            input[1] + 256 * input[2] + 65536 * input[3]
                + 16777216 * (IF input[4] >= 128 THEN input[4] - 256 ELSE input[4]))

\* f32::from_bits(le_u32): an f32 is modelled by its 32-bit pattern
le_f32(input) == le_u32(input)

-----------------------------------------------------------------------------
(* to_le_bytes of the integer types.                                       *)

u16_to_le_bytes(v) == << v % 256, (v \div 256) % 256 >>

u32_to_le_bytes(v) == u16_to_le_bytes(v.lo) \o u16_to_le_bytes(v.hi)

\* two's complement: the bytes of v mod 2^16
i16_to_le_bytes(v) == u16_to_le_bytes(v % 65536)

\* two's complement: \div rounds down and % is never negative
i32_to_le_bytes(v) ==
    << v % 256, (v \div 256) % 256, (v \div 65536) % 256, (v \div 16777216) % 256 >>

\* f32::to_le_bytes: the bytes of the bit pattern
f32_to_le_bytes(v) == u32_to_le_bytes(v)

-----------------------------------------------------------------------------
(* StringReference and FragmentRef (super::), a 32-bit index each.         *)

StringReferenceParse(input) == le_i32(input)

StringReferenceSerialize(name_reference) == i32_to_le_bytes(name_reference)

fragment_ref(input) == le_i32(input)

FragmentRefSerialize(reference) == i32_to_le_bytes(reference)

-----------------------------------------------------------------------------
(* The combinators nom::sequence::tuple and nom::multi::count.  A parser   *)
(* handed to a combinator is a record naming it.                           *)

Parser(name) == [parser |-> name]

\* count(f, n)
Count(f, n) == [parser |-> "count", f |-> f, n |-> n]

\* tuple((f1, ..., fk))
Tuple(parsers) == [parser |-> "tuple", parsers |-> parsers]

RECURSIVE apply_parser(_, _)

\* tuple: the parsers applied one after the other, each to what the one
\* before left, the values collected in order; the first error is the error
\* of the tuple.  (r is bound to the value of the parser's result.)
RECURSIVE tuple_loop(_, _, _, _)
tuple_loop(parsers, k, input, values) ==
    IF k > Len(parsers) THEN Ok(input, values)
    ELSE CHOOSE out \in
            { IF ~r.ok THEN r
              ELSE tuple_loop(parsers, k + 1, r.remaining, Append(values, r.value)) :
                r \in { apply_parser(parsers[k], input) } } : TRUE

tuple(parsers, input) == tuple_loop(parsers, 1, input, << >>)

\* a count that stops where the input runs out and returns what it has
RECURSIVE count_available_loop(_, _, _, _)
count_available_loop(f, n, input, res) ==
    IF n = 0 THEN Ok(input, res)
    ELSE CHOOSE out \in
            { IF ~r.ok THEN Ok(input, res)
              ELSE count_available_loop(f, n - 1, r.remaining, Append(res, r.value)) :
                r \in { apply_parser(f, input) } } : TRUE

count_available(f, n, input) == count_available_loop(f, n, input, << >>)

\* count: f applied n times, the values collected in order; the first error
\* of f is the error of count
RECURSIVE count_loop(_, _, _, _)
count_loop(f, n, input, res) ==
    IF n = 0 THEN Ok(input, res)
    ELSE CHOOSE out \in
            { IF ~r.ok THEN r
              ELSE count_loop(f, n - 1, r.remaining, Append(res, r.value)) :
                r \in { apply_parser(f, input) } } : TRUE

count(f, n, input) == count_loop(f, n, input, << >>)

apply_parser(f, input) ==
    CASE f.parser = "le_u16" -> le_u16(input)
      [] f.parser = "le_i16" -> le_i16(input)
      [] f.parser = "le_u32" -> le_u32(input)
      [] f.parser = "le_f32" -> le_f32(input)
      [] f.parser = "StringReference::parse" -> StringReferenceParse(input)
      [] f.parser = "fragment_ref" -> fragment_ref(input)
      [] f.parser = "count" -> count(f.f, f.n, input)
      [] f.parser = "tuple" -> tuple(f.parsers, input)

-----------------------------------------------------------------------------
(* CameraReferenceFragment, type 0x09.                                     *)

CameraReferenceTypeId == 9

\* a parse that starts where the decodes before it stopped: 12 bytes further
\* for every slot already decoded
CameraReferenceParseSharedCursor(input) ==
    LET decoded == Cardinality({ i \in DOMAIN fragments :
                                    fragments[i].status \in {"ok", "err"} })
        r == tuple(<< Parser("StringReference::parse"), Parser("fragment_ref"),
                      Parser("le_u32") >>,
                   SubSeq(input, 12 * decoded + 1, Len(input)))
    IN  IF ~r.ok THEN r
        ELSE Ok(r.remaining,
                [name_reference |-> r.value[1], reference |-> r.value[2],
                 flags |-> r.value[3]])

CameraReferenceParse(input) ==
    LET r == tuple(<< Parser("StringReference::parse"), Parser("fragment_ref"),
                      Parser("le_u32") >>, input)
    IN  IF ~r.ok THEN r
        ELSE Ok(r.remaining,
                [name_reference |-> r.value[1], reference |-> r.value[2],
                 flags |-> r.value[3]])

CameraReferenceSerialize(self) ==
    StringReferenceSerialize(self.name_reference)
        \o FragmentRefSerialize(self.reference)
        \o u32_to_le_bytes(self.flags)

-----------------------------------------------------------------------------
(* MeshAnimatedVerticesReferenceFragment, type 0x2f.                       *)

MeshAnimatedVerticesReferenceTypeId == 47

\* a parse that reads the reference before the name
MeshAnimatedVerticesReferenceParseRefFirst(input) ==
    LET r == tuple(<< Parser("fragment_ref"), Parser("StringReference::parse"),
                      Parser("le_u32") >>, input)
    IN  IF ~r.ok THEN r
        ELSE Ok(r.remaining,
                [name_reference |-> r.value[2], reference |-> r.value[1],
                 flags |-> r.value[3]])

MeshAnimatedVerticesReferenceParse(input) ==
    LET r == tuple(<< Parser("StringReference::parse"), Parser("fragment_ref"),
                      Parser("le_u32") >>, input)
    IN  IF ~r.ok THEN r
        ELSE Ok(r.remaining,
                [name_reference |-> r.value[1], reference |-> r.value[2],
                 flags |-> r.value[3]])

MeshAnimatedVerticesReferenceSerialize(self) ==
    StringReferenceSerialize(self.name_reference)
        \o FragmentRefSerialize(self.reference)
        \o u32_to_le_bytes(self.flags)

-----------------------------------------------------------------------------
(* PolygonAnimationReferenceFragment, type 0x18.                           *)

PolygonAnimationReferenceTypeId == 24

\* a parse that reads params1 only when bit 0 of flags is set
PolygonAnimationReferenceParseFlagGated(input) ==
    LET r == tuple(<< Parser("StringReference::parse"), Parser("fragment_ref"),
                      Parser("le_u32") >>, input)
        t == le_f32(r.remaining)
    IN  IF ~r.ok THEN r
        ELSE IF r.value[3].lo % 2 = 0
        THEN Ok(r.remaining,
                [name_reference |-> r.value[1], reference |-> r.value[2],
                 flags |-> r.value[3], params1 |-> [lo |-> 0, hi |-> 0]])
        ELSE IF ~t.ok THEN t
        ELSE Ok(t.remaining,
                [name_reference |-> r.value[1], reference |-> r.value[2],
                 flags |-> r.value[3], params1 |-> t.value])

PolygonAnimationReferenceParse(input) ==
    LET r == tuple(<< Parser("StringReference::parse"), Parser("fragment_ref"),
                      Parser("le_u32"), Parser("le_f32") >>, input)
    IN  IF ~r.ok THEN r
        ELSE Ok(r.remaining,
                [name_reference |-> r.value[1], reference |-> r.value[2],
                 flags |-> r.value[3], params1 |-> r.value[4]])

\* a serialize that writes params1 only when bit 0 of flags is set
PolygonAnimationReferenceSerializeFlagGated(self) ==
    StringReferenceSerialize(self.name_reference)
        \o FragmentRefSerialize(self.reference)
        \o u32_to_le_bytes(self.flags)
        \o (IF self.flags.lo % 2 = 1 THEN f32_to_le_bytes(self.params1) ELSE << >>)

PolygonAnimationReferenceSerialize(self) ==
    StringReferenceSerialize(self.name_reference)
        \o FragmentRefSerialize(self.reference)
        \o u32_to_le_bytes(self.flags)
        \o f32_to_le_bytes(self.params1)

-----------------------------------------------------------------------------
(* ZoneUnknownFragment, type 0x16.                                         *)

ZoneUnknownTypeId == 22

\* ZoneUnknownFragment {}
ZoneUnknownValue == [zone_unknown |-> TRUE]

\* a parse that takes the whole payload as the record
ZoneUnknownParseConsumesAll(input) == Ok(<< >>, ZoneUnknownValue)

ZoneUnknownParse(input) == Ok(input, ZoneUnknownValue)

ZoneUnknownSerialize(self) == << >>

\* name(&self, string_hash): String::new()
ZoneUnknownName(self, string_hash) == ""

-----------------------------------------------------------------------------
(* MeshAnimatedVerticesFragment, type 0x37.                                *)

MeshAnimatedVerticesTypeId == 55

\* the first tuple of parse: name_reference, flags, vertex_count,
\* frame_count, param1, param2, scale
MeshAnimatedVerticesHeader(input) ==
    tuple(<< Parser("StringReference::parse"), Parser("le_u32"), Parser("le_u16"),
             Parser("le_u16"), Parser("le_u16"), Parser("le_u16"),
             Parser("le_u16") >>, input)

\* a second tuple that counts the frames by vertex_count and the vertices by
\* frame_count
MeshAnimatedVerticesBodyCountsSwapped(i, vertex_count, frame_count) ==
    tuple(<< Count(Parser("le_u32"), vertex_count),
             Count(Tuple(<< Parser("le_i16"), Parser("le_i16"), Parser("le_i16") >>),
                   frame_count),
             Parser("le_u16") >>, i)

\* the second tuple of parse, on what the first left: frames, vertices, size6
MeshAnimatedVerticesBody(i, vertex_count, frame_count) ==
    tuple(<< Count(Parser("le_u32"), frame_count),
             Count(Tuple(<< Parser("le_i16"), Parser("le_i16"), Parser("le_i16") >>),
                   vertex_count),
             Parser("le_u16") >>, i)

\* Ok((remaining, MeshAnimatedVerticesFragment { .. })) of the values h of
\* the first tuple and b of the second
MeshAnimatedVerticesOk(h, b) ==
    Ok(b.remaining,
       [name_reference |-> h.value[1], flags |-> h.value[2],
        vertex_count |-> h.value[3], frame_count |-> h.value[4],
        param1 |-> h.value[5], param2 |-> h.value[6], scale |-> h.value[7],
        frames |-> b.value[1], vertices |-> b.value[2], size6 |-> b.value[3]])

\* parse after its first tuple returned h.  (b is bound to the result of the
\* second tuple.)
MeshAnimatedVerticesAfterHeader(h) ==
    CHOOSE out \in
        { IF ~b.ok THEN b ELSE MeshAnimatedVerticesOk(h, b) :
            b \in { MeshAnimatedVerticesBody(h.remaining, h.value[3], h.value[4]) } } :
        TRUE

\* (h is bound to the result of the first tuple.)
MeshAnimatedVerticesParse(input) ==
    CHOOSE out \in
        { IF ~h.ok THEN h ELSE MeshAnimatedVerticesAfterHeader(h) :
            h \in { MeshAnimatedVerticesHeader(input) } } : TRUE

\* [v.0.to_le_bytes(), v.1.to_le_bytes(), v.2.to_le_bytes()].concat()
vertex_to_le_bytes(v) ==
    i16_to_le_bytes(v[1]) \o i16_to_le_bytes(v[2]) \o i16_to_le_bytes(v[3])

\* frames.iter().flat_map(|f| f.to_le_bytes()).collect()
RECURSIVE frames_to_bytes(_)
frames_to_bytes(frames) ==
    IF frames = << >> THEN << >>
    ELSE u32_to_le_bytes(Head(frames)) \o frames_to_bytes(Tail(frames))

\* vertices.iter().flat_map(|v| [..].concat()).collect()
RECURSIVE vertices_to_bytes(_)
vertices_to_bytes(vertices) ==
    IF vertices = << >> THEN << >>
    ELSE vertex_to_le_bytes(Head(vertices)) \o vertices_to_bytes(Tail(vertices))

\* a serialize that writes the vertices before the frames
MeshAnimatedVerticesSerializeVerticesFirst(self) ==
    StringReferenceSerialize(self.name_reference)
        \o u32_to_le_bytes(self.flags)
        \o u16_to_le_bytes(self.vertex_count)
        \o u16_to_le_bytes(self.frame_count)
        \o u16_to_le_bytes(self.param1)
        \o u16_to_le_bytes(self.param2)
        \o u16_to_le_bytes(self.scale)
        \o vertices_to_bytes(self.vertices)
        \o frames_to_bytes(self.frames)
        \o u16_to_le_bytes(self.size6)

\* a serialize that writes frame_count frames and vertex_count vertices, as
\* many as there are at most
MeshAnimatedVerticesSerializeByCounts(self) ==
    StringReferenceSerialize(self.name_reference)
        \o u32_to_le_bytes(self.flags)
        \o u16_to_le_bytes(self.vertex_count)
        \o u16_to_le_bytes(self.frame_count)
        \o u16_to_le_bytes(self.param1)
        \o u16_to_le_bytes(self.param2)
        \o u16_to_le_bytes(self.scale)
        \o frames_to_bytes(Take(self.frames,
                IF self.frame_count < Len(self.frames)
                THEN self.frame_count ELSE Len(self.frames)))
        \o vertices_to_bytes(Take(self.vertices,
                IF self.vertex_count < Len(self.vertices)
                THEN self.vertex_count ELSE Len(self.vertices)))
        \o u16_to_le_bytes(self.size6)

MeshAnimatedVerticesSerialize(self) ==
    StringReferenceSerialize(self.name_reference)
        \o u32_to_le_bytes(self.flags)
        \o u16_to_le_bytes(self.vertex_count)
        \o u16_to_le_bytes(self.frame_count)
        \o u16_to_le_bytes(self.param1)
        \o u16_to_le_bytes(self.param2)
        \o u16_to_le_bytes(self.scale)
        \o frames_to_bytes(self.frames)
        \o vertices_to_bytes(self.vertices)
        \o u16_to_le_bytes(self.size6)

-----------------------------------------------------------------------------
(* The kinds by type id: the parse and serialize a slot's type id selects. *)

TypeIds ==
    { CameraReferenceTypeId, MeshAnimatedVerticesTypeId,
      MeshAnimatedVerticesReferenceTypeId, PolygonAnimationReferenceTypeId,
      ZoneUnknownTypeId }

FragmentParse(type_id, input) ==
    CASE type_id = CameraReferenceTypeId -> CameraReferenceParse(input)
      [] type_id = MeshAnimatedVerticesTypeId -> MeshAnimatedVerticesParse(input)
      [] type_id = MeshAnimatedVerticesReferenceTypeId ->
            MeshAnimatedVerticesReferenceParse(input)
      [] type_id = PolygonAnimationReferenceTypeId ->
            PolygonAnimationReferenceParse(input)
      [] type_id = ZoneUnknownTypeId -> ZoneUnknownParse(input)

FragmentSerialize(type_id, self) ==
    CASE type_id = CameraReferenceTypeId -> CameraReferenceSerialize(self)
      [] type_id = MeshAnimatedVerticesTypeId -> MeshAnimatedVerticesSerialize(self)
      [] type_id = MeshAnimatedVerticesReferenceTypeId ->
            MeshAnimatedVerticesReferenceSerialize(self)
      [] type_id = PolygonAnimationReferenceTypeId ->
            PolygonAnimationReferenceSerialize(self)
      [] type_id = ZoneUnknownTypeId -> ZoneUnknownSerialize(self)

-----------------------------------------------------------------------------
(* The inputs: payloads assembled from sample field encodings, cut at      *)
(* every length and followed by up to MaxTail further bytes; and           *)
(* MeshAnimatedVerticesFragment values built in memory.                    *)

\* 0 and -5038
NameSamples == { <<0, 0, 0, 0>>, <<82, 236, 255, 255>> }

\* 1730 and 0x80000278
RefSamples == { <<194, 6, 0, 0>>, <<120, 2, 0, 128>> }

\* 0, 1 (bit 0 set) and 0xfe000100 (bit 0 clear)
FlagSamples == { <<0, 0, 0, 0>>, <<1, 0, 0, 0>>, <<0, 1, 0, 254>> }

\* 0.0 and 1.0
FloatSamples == { <<0, 0, 0, 0>>, <<0, 0, 128, 63>> }

\* the counts 0..MaxCount, and 256
CountSamples == { <<c, 0>> : c \in 0..MaxCount } \cup { <<0, 1>> }

\* param1 = 67, param2 = 0, scale = 10
ParamSamples == { <<67, 0, 0, 0, 10, 0>> }

TailBytes(n) == [k \in 1..n |-> (170 + 17 * k) % 256]

BodyBytes(n) == [k \in 1..n |-> (86 + 113 * k) % 256]

\* bytes of a 0x37 record after its header, for MaxCount frames and vertices
MaxBody == 10 * MaxCount + 2

Prefixes(bytes) == { Take(bytes, n) : n \in 0..Len(bytes) }

WithTails(bytes) == { bytes \o TailBytes(n) : n \in 1..MaxTail }

Truncations(records) == UNION { Prefixes(r) \cup WithTails(r) : r \in records }

ReferencePayloads ==
    Truncations({ n \o r \o f : n \in NameSamples, r \in RefSamples, f \in FlagSamples })

PolygonPayloads ==
    Truncations({ n \o r \o f \o p :
                    n \in NameSamples, r \in RefSamples, f \in FlagSamples,
                    p \in FloatSamples })

MeshHeaders ==
    { n \o <<0, 0, 0, 0>> \o vc \o fc \o p :
        n \in NameSamples, vc \in CountSamples, fc \in CountSamples,
        p \in ParamSamples }

MeshPayloads ==
    UNION { Prefixes(h) : h \in MeshHeaders }
        \cup { h \o BodyBytes(n) : h \in MeshHeaders, n \in 1..(MaxBody + MaxTail) }

ZonePayloads == Prefixes(TailBytes(MaxTail + 1))

Payloads(type_id) ==
    CASE type_id = CameraReferenceTypeId -> ReferencePayloads
      [] type_id = MeshAnimatedVerticesTypeId -> MeshPayloads
      [] type_id = MeshAnimatedVerticesReferenceTypeId -> ReferencePayloads
      [] type_id = PolygonAnimationReferenceTypeId -> PolygonPayloads
      [] type_id = ZoneUnknownTypeId -> ZonePayloads

\* the first is 142868935
FrameSamples(n) ==
    [k \in 1..n |-> [lo |-> (455 * k) % 65536, hi |-> (2180 + 31000 * (k - 1)) % 65536]]

\* i16 values; the first is (-556, -1639, -13535)
VertexSamples(n) ==
    [k \in 1..n |-> << ((32212 + 4099 * (k - 1)) % 65536) - 32768,
                       ((31129 + 1639 * (k - 1)) % 65536) - 32768,
                       ((19233 + 13535 * (k - 1)) % 65536) - 32768 >>]

MeshValues ==
    { [name_reference |-> nr, flags |-> [lo |-> 0, hi |-> 0], vertex_count |-> vc, frame_count |-> fc,
       param1 |-> 67, param2 |-> 0, scale |-> 10,
       frames |-> FrameSamples(nf), vertices |-> VertexSamples(nv), size6 |-> 64980] :
        nr \in {0, 0 - 5038}, vc \in 0..MaxCount, fc \in 0..MaxCount,
        nf \in 0..MaxCount, nv \in 0..MaxCount }

\* the string blocks name() is called with
StringHashes == { "", "CAM01_SPRITE" }

-----------------------------------------------------------------------------
(* The caller: a directory of slots, each decoded, written back, read      *)
(* again and asked for its name.                                           *)

RawSlot(type_id, payload) ==
    [dir |-> [type_id |-> type_id, payload |-> payload],
     fragment |-> [status |-> "raw"]]

\* a fragment built in memory has no payload
BuiltSlot(value) ==
    [dir |-> [type_id |-> MeshAnimatedVerticesTypeId, payload |-> << >>],
     fragment |-> [status |-> "built", value |-> value]]

Slots ==
    UNION { { RawSlot(t, p) : p \in Payloads(t) } : t \in TypeIds }
        \cup { BuiltSlot(v) : v \in MeshValues }

\* the slots of the directories of DirSpec: of every kind, complete and cut short
DirSlots ==
    { RawSlot(CameraReferenceTypeId, <<0, 0, 0, 0, 194, 6, 0, 0, 0, 0, 0, 0>>),
      RawSlot(MeshAnimatedVerticesReferenceTypeId,
              <<0, 0, 0, 0, 194, 6, 0, 0, 0, 0, 0, 0>>),
      RawSlot(CameraReferenceTypeId, <<0, 0, 0, 0, 194, 6, 0, 0, 0, 0>>),
      RawSlot(PolygonAnimationReferenceTypeId,
              <<0, 0, 0, 0, 138, 5, 0, 0, 0, 0, 0, 0, 0, 0, 128, 63, 9>>),
      RawSlot(MeshAnimatedVerticesTypeId,
              <<82, 236, 255, 255, 0, 0, 0, 0, 1, 0, 1, 0, 67, 0, 0, 0, 10, 0>>
                  \o BodyBytes(12)),
      RawSlot(MeshAnimatedVerticesTypeId,
              <<82, 236, 255, 255, 0, 0, 0, 0, 1, 0, 1, 0, 67, 0, 0, 0, 10, 0>>
                  \o BodyBytes(11)),
      RawSlot(ZoneUnknownTypeId, <<7, 7>>),
      BuiltSlot([name_reference |-> 0, flags |-> [lo |-> 0, hi |-> 0], vertex_count |-> 1,
                 frame_count |-> 1, param1 |-> 67, param2 |-> 0, scale |-> 10,
                 frames |-> FrameSamples(1), vertices |-> VertexSamples(1),
                 size6 |-> 0]) }

InitWith(slots) ==
    /\ directory = [i \in DOMAIN slots |-> slots[i].dir]
    /\ fragments = [i \in DOMAIN slots |-> slots[i].fragment]
    /\ outputs = [i \in DOMAIN slots |-> [written |-> FALSE]]
    /\ reparsed = [i \in DOMAIN slots |-> [done |-> FALSE]]
    /\ names = [i \in DOMAIN slots |-> [called |-> FALSE]]

\* one slot, of any kind, with any of the inputs
Init == \E s \in Slots : InitWith(<< s >>)

\* a directory of DirLen slots
DirInit == \E slots \in [1..DirLen -> DirSlots] : InitWith(slots)

\* K::parse(payload) of slot i: its decoded value and the bytes left, or its
\* decode error
DecodeOutcome(i) ==
    LET r == FragmentParse(directory[i].type_id, directory[i].payload) IN
    IF r.ok
    THEN [status |-> "ok", value |-> r.value, remaining |-> r.remaining]
    ELSE [status |-> "err", error |-> r.error]

Decode(i) ==
    /\ fragments[i].status = "raw"
    /\ fragments' = [fragments EXCEPT ![i] = DecodeOutcome(i)]
    /\ UNCHANGED <<directory, outputs, reparsed, names>>

\* fragment.serialize()
Serialize(i) ==
    /\ fragments[i].status \in {"ok", "built"}
    /\ ~outputs[i].written
    /\ outputs' = [outputs EXCEPT ![i] =
            [written |-> TRUE,
             bytes |-> FragmentSerialize(directory[i].type_id, fragments[i].value)]]
    /\ UNCHANGED <<directory, fragments, reparsed, names>>

\* K::parse(&fragment.serialize())
Reparse(i) ==
    /\ outputs[i].written
    /\ ~reparsed[i].done
    /\ reparsed' = [reparsed EXCEPT ![i] =
            [done |-> TRUE,
             result |-> FragmentParse(directory[i].type_id, outputs[i].bytes)]]
    /\ UNCHANGED <<directory, fragments, outputs, names>>

\* ZoneUnknownFragment::name(string_hash)
Name(i, string_hash) ==
    /\ directory[i].type_id = ZoneUnknownTypeId
    /\ fragments[i].status = "ok"
    /\ ~names[i].called
    /\ names' = [names EXCEPT ![i] =
            [called |-> TRUE, string_hash |-> string_hash,
             name |-> ZoneUnknownName(fragments[i].value, string_hash)]]
    /\ UNCHANGED <<directory, fragments, outputs, reparsed>>

Next ==
    \/ \E i \in DOMAIN directory : Decode(i)
    \/ \E i \in DOMAIN directory : Serialize(i)
    \/ \E i \in DOMAIN directory : Reparse(i)
    \/ \E i \in DOMAIN directory : \E string_hash \in StringHashes :
            Name(i, string_hash)

Spec == Init /\ [][Next]_vars

DirSpec == DirInit /\ [][Next]_vars

-----------------------------------------------------------------------------
(* What the properties below read off a byte slice: the little-endian      *)
(* value at a byte offset (from 0), by position.                           *)

U16At(bytes, off) == bytes[off + 1] + 256 * bytes[off + 2]

I16At(bytes, off) ==
    IF bytes[off + 2] >= 128 THEN U16At(bytes, off) - 65536 ELSE U16At(bytes, off)

U32At(bytes, off) == [lo |-> U16At(bytes, off), hi |-> U16At(bytes, off + 2)]

I32At(bytes, off) ==
    IF bytes[off + 4] >= 128
    THEN U16At(bytes, off) + 65536 * (U16At(bytes, off + 2) - 65536)
    ELSE U16At(bytes, off) + 65536 * U16At(bytes, off + 2)

Slot == DOMAIN directory

Kind(i) == directory[i].type_id

Payload(i) == directory[i].payload

Decoded(i) == fragments[i].status \in {"ok", "err"}

Parsed(i) == fragments[i].status = "ok"

Failed(i) == fragments[i].status = "err" /\ fragments[i].error = Eof

Written(i) == outputs[i].written

Consumed(i) == Len(Payload(i)) - Len(fragments[i].remaining)

-----------------------------------------------------------------------------
\* C1, as stated: for every kind and every byte slice its parse accepts,
\* serialize of the parsed value returns exactly the whole slice.
C1_SerializeReturnsWholeSlice ==
    \A i \in Slot :
        (Parsed(i) /\ Written(i)) => outputs[i].bytes = Payload(i)

\* C1, amended: for every kind and every byte slice its parse accepts leaving
\* no bytes, serialize of the parsed value returns exactly the whole slice.
C1_RoundTripOfExactRecord ==
    \A i \in Slot :
        (Parsed(i) /\ fragments[i].remaining = << >> /\ Written(i))
            => outputs[i].bytes = Payload(i)

C1_Witness ==
    \E i \in Slot :
        /\ Kind(i) = MeshAnimatedVerticesTypeId
        /\ Parsed(i) /\ fragments[i].remaining = << >> /\ Written(i)
        /\ fragments[i].value.frames # << >>
        /\ fragments[i].value.vertices # << >>
        /\ outputs[i].bytes = Payload(i)

-----------------------------------------------------------------------------
\* C2: a camera reference or mesh-animated-vertices reference parse of 12
\* bytes or more succeeds with name_reference the i32 of bytes 0..4, the
\* reference index the value of bytes 4..8 and flags the u32 of bytes 8..12,
\* leaving what follows byte 12; serialize gives back those 12 bytes.
C2_ReferenceRecordLayout ==
    \A i \in Slot :
        (/\ Kind(i) \in {CameraReferenceTypeId, MeshAnimatedVerticesReferenceTypeId}
         /\ Decoded(i)
         /\ Len(Payload(i)) >= 12)
            => /\ Parsed(i)
               /\ fragments[i].value.name_reference = I32At(Payload(i), 0)
               /\ fragments[i].value.reference % 65536 = U16At(Payload(i), 4)
               /\ (fragments[i].value.reference \div 65536) % 65536
                      = U16At(Payload(i), 6)
               /\ fragments[i].value.flags = U32At(Payload(i), 8)
               /\ fragments[i].remaining = Drop(Payload(i), 12)
               /\ Written(i) =>
                    /\ Len(outputs[i].bytes) = 12
                    /\ outputs[i].bytes = Take(Payload(i), 12)

\* the camera reference of the fixture: name_ref 0, ref_index 1730, flags 0
C2_Witness ==
    \E i \in Slot :
        /\ Kind(i) = CameraReferenceTypeId
        /\ Payload(i) = <<0, 0, 0, 0, 194, 6, 0, 0, 0, 0, 0, 0>>
        /\ Parsed(i) /\ Written(i)
        /\ fragments[i].value.reference = 1730
        /\ outputs[i].bytes = Payload(i)

-----------------------------------------------------------------------------
\* The layout of a parsed 0x37 record whose header is header_len bytes long:
\* the seven header fields, frame_count u32 frames, vertex_count i16 triples
\* after the frames, then size6; header_len + 2 + 4 * frame_count
\* + 6 * vertex_count bytes consumed.
MeshLayout(i, header_len) ==
    LET p == Payload(i)
        v == fragments[i].value
        frames_at == header_len
        vertices_at == header_len + 4 * v.frame_count
        size6_at == header_len + 4 * v.frame_count + 6 * v.vertex_count
    IN  /\ v.name_reference = I32At(p, 0)
        /\ v.flags = U32At(p, 4)
        /\ v.vertex_count = U16At(p, 8)
        /\ v.frame_count = U16At(p, 10)
        /\ v.param1 = U16At(p, 12)
        /\ v.param2 = U16At(p, 14)
        /\ v.scale = U16At(p, 16)
        /\ Len(v.frames) = v.frame_count
        /\ Len(v.vertices) = v.vertex_count
        /\ Consumed(i) = size6_at + 2
        /\ \A k \in 1..Len(v.frames) :
                v.frames[k] = U32At(p, frames_at + 4 * (k - 1))
        /\ \A k \in 1..Len(v.vertices) :
                v.vertices[k] = << I16At(p, vertices_at + 6 * (k - 1)),
                                   I16At(p, vertices_at + 6 * (k - 1) + 2),
                                   I16At(p, vertices_at + 6 * (k - 1) + 4) >>
        /\ v.size6 = U16At(p, size6_at)

\* C3, as stated: a successful 0x37 parse reads a 14-byte header, the frames,
\* the vertices and size6, and consumes 16 + 4 * frame_count
\* + 6 * vertex_count bytes.
C3_Consumes16PlusArrays ==
    \A i \in Slot :
        (Kind(i) = MeshAnimatedVerticesTypeId /\ Parsed(i)) => MeshLayout(i, 14)

\* C3, amended: the header is 18 bytes and the parse consumes
\* 20 + 4 * frame_count + 6 * vertex_count bytes.
C3_CountedArrayDecode ==
    \A i \in Slot :
        (Kind(i) = MeshAnimatedVerticesTypeId /\ Parsed(i)) => MeshLayout(i, 18)

\* two counts that differ, neither zero
C3_Witness ==
    \E i \in Slot :
        /\ Kind(i) = MeshAnimatedVerticesTypeId
        /\ Parsed(i)
        /\ Len(fragments[i].value.frames) = 2
        /\ Len(fragments[i].value.vertices) = 1
        /\ fragments[i].remaining # << >>

-----------------------------------------------------------------------------
\* C4: a 0x37 parse takes the numbers of frames and vertices from the header
\* only: an input shorter than 16 + 4 * frame_count + 6 * vertex_count bytes
\* fails with Eof, and a parse that succeeds holds exactly frame_count frames
\* and vertex_count vertices.
C4_CountDrivenFailure ==
    \A i \in Slot :
        (/\ Kind(i) = MeshAnimatedVerticesTypeId
         /\ Decoded(i)
         /\ Len(Payload(i)) >= 12)
            => LET vertex_count == U16At(Payload(i), 8)
                   frame_count == U16At(Payload(i), 10)
               IN  /\ Len(Payload(i)) < 16 + 4 * frame_count + 6 * vertex_count
                        => (Failed(i) /\ ~Written(i))
                   /\ Parsed(i) =>
                        /\ Len(fragments[i].value.frames) = frame_count
                        /\ Len(fragments[i].value.vertices) = vertex_count

\* a whole header that declares more elements than the bytes after it hold
C4_Witness ==
    \E i \in Slot :
        /\ Kind(i) = MeshAnimatedVerticesTypeId
        /\ Failed(i)
        /\ Len(Payload(i)) > 18 + 4
        /\ U16At(Payload(i), 10) = 2
        /\ U16At(Payload(i), 8) = 1
        /\ Len(Payload(i)) < 16 + 4 * 2 + 6 * 1

-----------------------------------------------------------------------------
\* the minimum widths C5 names; the zero-field kind has none
StatedMinWidth(type_id) ==
    CASE type_id = CameraReferenceTypeId -> 12
      [] type_id = MeshAnimatedVerticesReferenceTypeId -> 12
      [] type_id = PolygonAnimationReferenceTypeId -> 16
      [] type_id = MeshAnimatedVerticesTypeId -> 16
      [] type_id = ZoneUnknownTypeId -> 0

-----------------------------------------------------------------------------
-----------------------------------------------------------------------------
\* C7: a zone-unknown parse succeeds on every input, the empty one too, and
\* leaves the whole input; serialize writes nothing; name is the empty string
\* for every string block.
C7_ZeroFieldRecord ==
    \A i \in Slot :
        Kind(i) = ZoneUnknownTypeId
            => /\ Decoded(i) =>
                    /\ Parsed(i)
                    /\ fragments[i].remaining = Payload(i)
               /\ Written(i) => outputs[i].bytes = << >>
               /\ names[i].called => names[i].name = ""

C7_Witness ==
    \E i \in Slot :
        /\ Kind(i) = ZoneUnknownTypeId
        /\ Payload(i) # << >>
        /\ Parsed(i) /\ Written(i)
        /\ names[i].called /\ names[i].string_hash # ""

-----------------------------------------------------------------------------
-----------------------------------------------------------------------------
\* C9: for every kind, when parse succeeds the input is serialize of the
\* value followed by the remaining bytes, so serialize writes as many bytes
\* as parse consumed.
C9_ConsumedPrefix ==
    \A i \in Slot :
        (Parsed(i) /\ Written(i))
            => /\ Payload(i) = outputs[i].bytes \o fragments[i].remaining
               /\ Len(outputs[i].bytes) = Consumed(i)
               /\ fragments[i].remaining = Drop(Payload(i), Consumed(i))

C9_Witness ==
    \E i \in Slot :
        /\ Kind(i) = PolygonAnimationReferenceTypeId
        /\ Parsed(i) /\ Written(i)
        /\ fragments[i].remaining # << >>
        /\ fragments[i].value.flags.lo % 2 = 0
        /\ Len(outputs[i].bytes) = 16

-----------------------------------------------------------------------------
\* C10: serialize of a 0x37 value writes as many elements as frames and
\* vertices hold, whatever the two count fields say; when the count fields
\* equal those lengths, parse of the bytes written succeeds, leaves nothing
\* and returns the value field for field.
C10_ReverseRoundTrip ==
    \A i \in Slot :
        (/\ Kind(i) = MeshAnimatedVerticesTypeId
         /\ fragments[i].status \in {"ok", "built"}
         /\ Written(i))
            => LET v == fragments[i].value IN
               /\ Len(outputs[i].bytes) = 20 + 4 * Len(v.frames) + 6 * Len(v.vertices)
               /\ (/\ reparsed[i].done
                   /\ v.frame_count = Len(v.frames)
                   /\ v.vertex_count = Len(v.vertices))
                    => /\ reparsed[i].result.ok
                       /\ reparsed[i].result.remaining = << >>
                       /\ reparsed[i].result.value = v

\* a value built in memory, two frames and a vertex, written and read back
C10_Witness ==
    \E i \in Slot :
        /\ fragments[i].status = "built"
        /\ fragments[i].value.frame_count = 2
        /\ Len(fragments[i].value.frames) = 2
        /\ fragments[i].value.vertex_count = 1
        /\ Len(fragments[i].value.vertices) = 1
        /\ reparsed[i].done
        /\ reparsed[i].result.ok

=============================================================================
